---- MODULE Spec2Model ----
(***************************************************************************)
(* The lifecycle state machine of a container's init process               *)
(* (init_process_state.go): the variants createdState, runningState,       *)
(* pausedState, stoppedState (and deletedState), their operations and      *)
(* their transition routines, driven by concurrent callers through the     *)
(* init process context.                                                   *)
(***************************************************************************)
EXTENDS Integers, Sequences, FiniteSets, TLC

\* ------------------------------------------------------------------ bounds
NumThreads == 2
MaxStatus == 1

Threads == 1..NumThreads
Statuses == 0..MaxStatus

\* ------------------------------------------------------------------ values
Variants == {"createdState", "runningState", "pausedState", "stoppedState", "deletedState"}
Ops == {"Start", "Delete", "Pause", "Resume", "Update", "Checkpoint", "Exec", "Kill",
        "SetExited", "Status"}

\* A Go error is a sequence of strings (message and its arguments); nil is empty.
Nil == <<>>
\* What a call into the process controller may return.
Outcomes == {Nil, <<"controller: failed">>, <<"controller: timed out">>}

Free == 0
NoResult == [val |-> "", err |-> Nil, panic |-> Nil]

VARIABLES
    initState,  \* p.initState: the variant the context currently holds
    exited,     \* p.setExited has recorded an exit status
    status,     \* the recorded exit status
    mu,         \* the context's lock: Free or the thread holding it
    pc,         \* per thread: "idle", "waiting", "inflight", "done", "panicked"
    op,         \* per thread: the operation it invoked
    arg,        \* per thread: the status passed to SetExited
    self,       \* per thread: the receiver s the call was dispatched to
    reply,      \* per thread: what the controller call in flight returns
    ret,        \* per thread: what the operation returned
    calls,      \* per thread: the controller calls the operation issued
    logged,     \* per thread: the operation logged an error
    want,       \* per thread: the successor named in a direct transition call
    scen        \* history: how far the run has followed each end-to-end scenario

vars == <<initState, exited, status, mu, pc, op, arg, self, reply, ret, calls, logged,
          want, scen>>

\* ------------------------------------------------------------------ helpers
\* stateName: pausedState has no case and falls through to the panic.
stateName(v) ==
    CASE v = "runningState" -> [name |-> "running", panic |-> Nil]
      [] v = "createdState" -> [name |-> "created", panic |-> Nil]
      [] v = "deletedState" -> [name |-> "deleted", panic |-> Nil]
      [] v = "stoppedState" -> [name |-> "stopped", panic |-> Nil]
      [] OTHER -> [name |-> "", panic |-> <<"invalid state", v>>]

\* fmt.Errorf("invalid state transition %q to %q", stateName(s), name)
invalidTransition(cur, v, name) ==
    IF stateName(v).panic # Nil
    THEN [initState |-> cur, err |-> Nil, panic |-> stateName(v).panic]
    ELSE [initState |-> cur,
          err |-> <<"invalid state transition", stateName(v).name, name>>,
          panic |-> Nil]

installed(v) == [initState |-> v, err |-> Nil, panic |-> Nil]

\* The transition routines: cur is p.initState before the call.
\* createdState.transition with the "stopped" case installing the paused variant.
createdState_transition_StoppedInstallsPaused(cur, name) ==
    CASE name = "running" -> installed("runningState")
      [] name = "stopped" -> installed("pausedState")
      [] name = "deleted" -> installed("deletedState")
      [] OTHER -> invalidTransition(cur, "createdState", name)

createdState_transition(cur, name) ==
    CASE name = "running" -> installed("runningState")
      [] name = "stopped" -> installed("stoppedState")
      [] name = "deleted" -> installed("deletedState")
      [] OTHER -> invalidTransition(cur, "createdState", name)

runningState_transition(cur, name) ==
    CASE name = "stopped" -> installed("stoppedState")
      [] name = "paused" -> installed("pausedState")
      [] OTHER -> invalidTransition(cur, "runningState", name)

pausedState_transition(cur, name) ==
    CASE name = "running" -> installed("runningState")
      [] name = "stopped" -> installed("stoppedState")
      [] OTHER -> invalidTransition(cur, "pausedState", name)

\* stoppedState.transition without its "deleted" case.
stoppedState_transition_NoDeleted(cur, name) ==
    invalidTransition(cur, "stoppedState", name)

stoppedState_transition(cur, name) ==
    CASE name = "deleted" -> installed("deletedState")
      [] OTHER -> invalidTransition(cur, "stoppedState", name)

\* ------------------------------------------------------------------ steps of a method
\* return v, e
Return(t, v, e) ==
    /\ pc' = [pc EXCEPT ![t] = "done"]
    /\ ret' = [ret EXCEPT ![t] = [val |-> v, err |-> e, panic |-> Nil]]

\* panic(e): the goroutine unwinds and the program dies with the lock held
Panic(t, e) ==
    /\ pc' = [pc EXCEPT ![t] = "panicked"]
    /\ ret' = [ret EXCEPT ![t] = [val |-> "", err |-> Nil, panic |-> e]]

\* A call into the process controller is issued; it returns one of Outcomes.
Call(t, fn) ==
    /\ \E e \in Outcomes : reply' = [reply EXCEPT ![t] = e]
    /\ calls' = [calls EXCEPT ![t] = Append(@, fn)]
    /\ pc' = [pc EXCEPT ![t] = "inflight"]
    /\ UNCHANGED ret

\* return fmt.Errorf(msg)
Reject(t, msg) ==
    /\ Return(t, "", <<msg>>)
    /\ UNCHANGED <<initState, exited, status, reply, calls, logged>>

\* return s.p.fn(...): the controller's result is the method's result
Delegate(t, fn, handle) ==
    IF pc[t] = "waiting"
    THEN Call(t, fn) /\ UNCHANGED <<initState, exited, status, logged>>
    ELSE /\ Return(t, IF reply[t] = Nil THEN handle ELSE "", reply[t])
         /\ UNCHANGED <<initState, exited, status, reply, calls, logged>>

\* return s.transition(name), r being what the routine did
ReturnTransition(t, r) ==
    /\ initState' = r.initState
    /\ IF r.panic # Nil THEN Panic(t, r.panic) ELSE Return(t, "", r.err)
    /\ UNCHANGED <<exited, status, reply, calls>>

\* if err := s.transition(name); err != nil { panic(err) }
TransitionOrPanic(t, r) ==
    /\ initState' = r.initState
    /\ IF r.panic # Nil THEN Panic(t, r.panic)
       ELSE IF r.err # Nil THEN Panic(t, r.err)
       ELSE Return(t, "", Nil)
    /\ UNCHANGED <<reply, calls>>

\* s.p.setExited(status): the context records the exit status
setExited(st) ==
    /\ exited' = TRUE
    /\ status' = st

\* ------------------------------------------------------------------ createdState
createdState_Pause(t) == Reject(t, "cannot pause task in created state")

createdState_Resume(t) == Reject(t, "cannot resume task in created state")

createdState_Update(t) == Delegate(t, "update", "")

createdState_Checkpoint(t) == Reject(t, "cannot checkpoint a task in created state")

\* createdState.Start that drops the controller's error and transitions anyway.
createdState_Start_IgnoresError(t) ==
    IF pc[t] = "waiting"
    THEN Call(t, "start") /\ UNCHANGED <<initState, exited, status, logged>>
    ELSE /\ ReturnTransition(t, createdState_transition(initState, "running"))
         /\ UNCHANGED logged

createdState_Start(t) ==
    IF pc[t] = "waiting"
    THEN Call(t, "start") /\ UNCHANGED <<initState, exited, status, logged>>
    ELSE IF reply[t] # Nil
         THEN /\ Return(t, "", reply[t])
              /\ UNCHANGED <<initState, exited, status, reply, calls, logged>>
         ELSE /\ ReturnTransition(t, createdState_transition(initState, "running"))
              /\ UNCHANGED logged

createdState_Delete(t) ==
    IF pc[t] = "waiting"
    THEN Call(t, "delete") /\ UNCHANGED <<initState, exited, status, logged>>
    ELSE IF reply[t] # Nil
         THEN /\ Return(t, "", reply[t])
              /\ UNCHANGED <<initState, exited, status, reply, calls, logged>>
         ELSE /\ ReturnTransition(t, createdState_transition(initState, "deleted"))
              /\ UNCHANGED logged

createdState_Kill(t) == Delegate(t, "kill", "")

createdState_SetExited(t) ==
    /\ setExited(arg[t])
    /\ TransitionOrPanic(t, createdState_transition(initState, "stopped"))
    /\ UNCHANGED logged

createdState_Exec(t) == Delegate(t, "exec", "process")

createdState_Status(t) ==
    /\ Return(t, "created", Nil)
    /\ UNCHANGED <<initState, exited, status, reply, calls, logged>>

\* ------------------------------------------------------------------ runningState
\* runningState.Pause that transitions to paused instead of rejecting.
runningState_Pause_Transitions(t) ==
    /\ ReturnTransition(t, runningState_transition(initState, "paused"))
    /\ UNCHANGED logged

runningState_Pause(t) == Reject(t, "pause not implemented yet")

runningState_Resume(t) == Reject(t, "cannot resume a running process")

runningState_Update(t) == Delegate(t, "update", "")

runningState_Checkpoint(t) == Reject(t, "checkpoint not implemented yet")

runningState_Start(t) == Reject(t, "cannot start a running process")

runningState_Delete(t) == Reject(t, "cannot delete a running process")

runningState_Kill(t) == Delegate(t, "kill", "")

\* runningState.SetExited that records the status and forgets the transition.
runningState_SetExited_NoTransition(t) ==
    /\ setExited(arg[t])
    /\ Return(t, "", Nil)
    /\ UNCHANGED <<initState, reply, calls, logged>>

runningState_SetExited(t) ==
    /\ setExited(arg[t])
    /\ TransitionOrPanic(t, runningState_transition(initState, "stopped"))
    /\ UNCHANGED logged

runningState_Exec(t) == Delegate(t, "exec", "process")

runningState_Status(t) ==
    /\ Return(t, "running", Nil)
    /\ UNCHANGED <<initState, exited, status, reply, calls, logged>>

\* ------------------------------------------------------------------ pausedState
pausedState_Pause(t) == Reject(t, "cannot pause a paused container")

pausedState_Resume(t) == Reject(t, "resume not implemented yet")

pausedState_Update(t) == Delegate(t, "update", "")

pausedState_Checkpoint(t) == Reject(t, "checkpoint not implemented yet")

pausedState_Start(t) == Reject(t, "cannot start a paused process")

pausedState_Delete(t) == Reject(t, "cannot delete a paused process")

pausedState_Kill(t) == Delegate(t, "kill", "")

\* pausedState.SetExited that gives up when the compensating Resume fails.
pausedState_SetExited_StopsOnResumeError(t) ==
    IF pc[t] = "waiting"
    THEN /\ setExited(arg[t])
         /\ Call(t, "Resume")
         /\ UNCHANGED <<initState, logged>>
    ELSE IF reply[t] # Nil
         THEN /\ logged' = [logged EXCEPT ![t] = TRUE]
              /\ Return(t, "", Nil)
              /\ UNCHANGED <<initState, exited, status, reply, calls>>
         ELSE /\ TransitionOrPanic(t, pausedState_transition(initState, "stopped"))
              /\ UNCHANGED <<exited, status, logged>>

\* pausedState.SetExited that installs stopped before it resumes the container.
pausedState_SetExited_StopsBeforeResume(t) ==
    IF pc[t] = "waiting"
    THEN /\ setExited(arg[t])
         /\ initState' = pausedState_transition(initState, "stopped").initState
         /\ Call(t, "Resume")
         /\ UNCHANGED logged
    ELSE /\ logged' = [logged EXCEPT ![t] = (reply[t] # Nil)]
         /\ Return(t, "", Nil)
         /\ UNCHANGED <<initState, exited, status, reply, calls>>

\* pausedState.SetExited written like runningState.SetExited: no Resume.
pausedState_SetExited_NoResume(t) ==
    /\ setExited(arg[t])
    /\ TransitionOrPanic(t, pausedState_transition(initState, "stopped"))
    /\ UNCHANGED logged

\* "Resume" is s.p.runtime.Resume(context.Background(), s.p.ID()); its error is
\* logged and dropped.
pausedState_SetExited(t) ==
    IF pc[t] = "waiting"
    THEN /\ setExited(arg[t])
         /\ Call(t, "Resume")
         /\ UNCHANGED <<initState, logged>>
    ELSE /\ logged' = [logged EXCEPT ![t] = (reply[t] # Nil)]
         /\ TransitionOrPanic(t, pausedState_transition(initState, "stopped"))
         /\ UNCHANGED <<exited, status>>

pausedState_Exec(t) == Reject(t, "cannot exec in a paused state")

\* pausedState.Status answering with the running variant's string.
pausedState_Status_SaysRunning(t) ==
    /\ Return(t, "running", Nil)
    /\ UNCHANGED <<initState, exited, status, reply, calls, logged>>

pausedState_Status(t) ==
    /\ Return(t, "paused", Nil)
    /\ UNCHANGED <<initState, exited, status, reply, calls, logged>>

\* ------------------------------------------------------------------ stoppedState
stoppedState_Pause(t) == Reject(t, "cannot pause a stopped container")

stoppedState_Resume(t) == Reject(t, "cannot resume a stopped container")

stoppedState_Update(t) == Reject(t, "cannot update a stopped container")

stoppedState_Checkpoint(t) == Reject(t, "cannot checkpoint a stopped container")

stoppedState_Start(t) == Reject(t, "cannot start a stopped process")

\* stoppedState.Delete that drops the controller's error and transitions anyway.
stoppedState_Delete_IgnoresError(t) ==
    IF pc[t] = "waiting"
    THEN Call(t, "delete") /\ UNCHANGED <<initState, exited, status, logged>>
    ELSE /\ ReturnTransition(t, stoppedState_transition(initState, "deleted"))
         /\ UNCHANGED logged

stoppedState_Delete(t) ==
    IF pc[t] = "waiting"
    THEN Call(t, "delete") /\ UNCHANGED <<initState, exited, status, logged>>
    ELSE IF reply[t] # Nil
         THEN /\ Return(t, "", reply[t])
              /\ UNCHANGED <<initState, exited, status, reply, calls, logged>>
         ELSE /\ ReturnTransition(t, stoppedState_transition(initState, "deleted"))
              /\ UNCHANGED logged

\* stoppedState.Kill that rejects the call like the other stopped operations.
stoppedState_Kill_Rejects(t) == Reject(t, "cannot kill a stopped container")

stoppedState_Kill(t) == Delegate(t, "kill", "")

\* stoppedState.SetExited that records the status again.
stoppedState_SetExited_Records(t) ==
    /\ setExited(arg[t])
    /\ Return(t, "", Nil)
    /\ UNCHANGED <<initState, reply, calls, logged>>

\* no op
stoppedState_SetExited(t) ==
    /\ Return(t, "", Nil)
    /\ UNCHANGED <<initState, exited, status, reply, calls, logged>>

stoppedState_Exec(t) == Reject(t, "cannot exec in a stopped state")

stoppedState_Status(t) ==
    /\ Return(t, "stopped", Nil)
    /\ UNCHANGED <<initState, exited, status, reply, calls, logged>>

\* ------------------------------------------------------------------ deletedState
\* The variant createdState.transition and stoppedState.transition install as
\* &deletedState{}: it holds no reference to the context, so none of its
\* operations can reach p.initState or the controller.
deletedState_Pause(t) == Reject(t, "cannot pause a deleted process")

deletedState_Resume(t) == Reject(t, "cannot resume a deleted process")

deletedState_Update(t) == Reject(t, "cannot update a deleted process")

deletedState_Checkpoint(t) == Reject(t, "cannot checkpoint a deleted process")

deletedState_Start(t) == Reject(t, "cannot start a deleted process")

deletedState_Delete(t) == Reject(t, "cannot delete a deleted process")

deletedState_Kill(t) == Reject(t, "cannot kill a deleted process")

deletedState_SetExited(t) ==
    /\ Return(t, "", Nil)
    /\ UNCHANGED <<initState, exited, status, reply, calls, logged>>

deletedState_Exec(t) == Reject(t, "cannot exec in a deleted state")

deletedState_Status(t) == Reject(t, "cannot report the status of a deleted process")

\* ------------------------------------------------------------------ dispatch
\* The interface initState: the call o on receiver s runs s's method.
createdState(t, o) ==
    CASE o = "Start" -> createdState_Start(t)
      [] o = "Delete" -> createdState_Delete(t)
      [] o = "Pause" -> createdState_Pause(t)
      [] o = "Resume" -> createdState_Resume(t)
      [] o = "Update" -> createdState_Update(t)
      [] o = "Checkpoint" -> createdState_Checkpoint(t)
      [] o = "Exec" -> createdState_Exec(t)
      [] o = "Kill" -> createdState_Kill(t)
      [] o = "SetExited" -> createdState_SetExited(t)
      [] o = "Status" -> createdState_Status(t)

runningState(t, o) ==
    CASE o = "Start" -> runningState_Start(t)
      [] o = "Delete" -> runningState_Delete(t)
      [] o = "Pause" -> runningState_Pause(t)
      [] o = "Resume" -> runningState_Resume(t)
      [] o = "Update" -> runningState_Update(t)
      [] o = "Checkpoint" -> runningState_Checkpoint(t)
      [] o = "Exec" -> runningState_Exec(t)
      [] o = "Kill" -> runningState_Kill(t)
      [] o = "SetExited" -> runningState_SetExited(t)
      [] o = "Status" -> runningState_Status(t)

pausedState(t, o) ==
    CASE o = "Start" -> pausedState_Start(t)
      [] o = "Delete" -> pausedState_Delete(t)
      [] o = "Pause" -> pausedState_Pause(t)
      [] o = "Resume" -> pausedState_Resume(t)
      [] o = "Update" -> pausedState_Update(t)
      [] o = "Checkpoint" -> pausedState_Checkpoint(t)
      [] o = "Exec" -> pausedState_Exec(t)
      [] o = "Kill" -> pausedState_Kill(t)
      [] o = "SetExited" -> pausedState_SetExited(t)
      [] o = "Status" -> pausedState_Status(t)

stoppedState(t, o) ==
    CASE o = "Start" -> stoppedState_Start(t)
      [] o = "Delete" -> stoppedState_Delete(t)
      [] o = "Pause" -> stoppedState_Pause(t)
      [] o = "Resume" -> stoppedState_Resume(t)
      [] o = "Update" -> stoppedState_Update(t)
      [] o = "Checkpoint" -> stoppedState_Checkpoint(t)
      [] o = "Exec" -> stoppedState_Exec(t)
      [] o = "Kill" -> stoppedState_Kill(t)
      [] o = "SetExited" -> stoppedState_SetExited(t)
      [] o = "Status" -> stoppedState_Status(t)

deletedState(t, o) ==
    CASE o = "Start" -> deletedState_Start(t)
      [] o = "Delete" -> deletedState_Delete(t)
      [] o = "Pause" -> deletedState_Pause(t)
      [] o = "Resume" -> deletedState_Resume(t)
      [] o = "Update" -> deletedState_Update(t)
      [] o = "Checkpoint" -> deletedState_Checkpoint(t)
      [] o = "Exec" -> deletedState_Exec(t)
      [] o = "Kill" -> deletedState_Kill(t)
      [] o = "SetExited" -> deletedState_SetExited(t)
      [] o = "Status" -> deletedState_Status(t)

initState_call(t, s, o) ==
    CASE s = "createdState" -> createdState(t, o)
      [] s = "runningState" -> runningState(t, o)
      [] s = "pausedState" -> pausedState(t, o)
      [] s = "stoppedState" -> stoppedState(t, o)
      [] s = "deletedState" -> deletedState(t, o)

\* s.transition(name) on a receiver of variant v; deletedState has no routine.
transition(v, cur, n) ==
    CASE v = "createdState" -> createdState_transition(cur, n)
      [] v = "runningState" -> runningState_transition(cur, n)
      [] v = "pausedState" -> pausedState_transition(cur, n)
      [] v = "stoppedState" -> stoppedState_transition(cur, n)

\* ------------------------------------------------------------------ history
\* The two end-to-end scenarios of the design (section 8, items 8 and 9), as the
\* operations a caller completes one after the other from Created.  scen holds,
\* for each, the operations of the script completed so far, or Off once the run
\* has left the script.
Script8 == <<"Start", "Pause", "Kill", "SetExited", "Delete", "Status">>
Script9 == <<"SetExited", "Delete">>
Off == <<"off">>
Fresh == [s8 |-> <<>>, s9 |-> <<>>]
Left == [s8 |-> Off, s9 |-> Off]

\* The script followed by one more completed operation o; ok: o returned no error.
Follow(script, seen, o, ok) ==
    IF /\ seen # Off
       /\ Len(seen) < Len(script)
       /\ o = script[Len(seen) + 1]
       /\ o \in {"Start", "Delete"} => ok
    THEN Append(seen, o)
    ELSE Off

\* Scenario 9 lets Start calls come after the exit: they must change nothing.
Follow9(seen, o, ok) ==
    IF o = "Start" /\ seen # Off /\ seen # <<>>
    THEN seen
    ELSE Follow(Script9, seen, o, ok)

\* Thread t's step is observed: when it completes its operation, the scripts move.
Observe(t) ==
    scen' = IF pc'[t] \in {"done", "panicked"}
            THEN [s8 |-> Follow(Script8, scen.s8, op[t], ret'[t].err = Nil),
                  s9 |-> Follow9(scen.s9, op[t], ret'[t].err = Nil)]
            ELSE scen

\* ------------------------------------------------------------------ the context
\* The context's operations entered without waiting for the lock.
Lock_NoWait(t) ==
    mu' = t

\* p.mu.Lock()
Lock(t) ==
    /\ mu = Free
    /\ mu' = t

\* A thread invokes operation o on the context and waits for its lock.
Request(t) ==
    /\ pc[t] = "idle"
    /\ \E o \in Ops :
         /\ op' = [op EXCEPT ![t] = o]
         /\ \E a \in Statuses :
              /\ o # "SetExited" => a = 0
              /\ arg' = [arg EXCEPT ![t] = a]
    /\ pc' = [pc EXCEPT ![t] = "waiting"]
    /\ UNCHANGED <<initState, exited, status, mu, self, reply, ret, calls, logged,
                   want, scen>>

\* return p.initState.<o>(...): the call goes to the current state, which runs
\* up to its controller call or to its return.
Forward(t, o) ==
    /\ self' = [self EXCEPT ![t] = initState]
    /\ initState_call(t, initState, o)
    /\ Observe(t)
    /\ UNCHANGED <<op, arg, want>>

\* The context's operations: take the lock, forward to the current state.
Start(t) ==
    /\ pc[t] = "waiting" /\ op[t] = "Start"
    /\ Lock(t)
    /\ Forward(t, "Start")

Delete(t) ==
    /\ pc[t] = "waiting" /\ op[t] = "Delete"
    /\ Lock(t)
    /\ Forward(t, "Delete")

Pause(t) ==
    /\ pc[t] = "waiting" /\ op[t] = "Pause"
    /\ Lock(t)
    /\ Forward(t, "Pause")

Resume(t) ==
    /\ pc[t] = "waiting" /\ op[t] = "Resume"
    /\ Lock(t)
    /\ Forward(t, "Resume")

Update(t) ==
    /\ pc[t] = "waiting" /\ op[t] = "Update"
    /\ Lock(t)
    /\ Forward(t, "Update")

Checkpoint(t) ==
    /\ pc[t] = "waiting" /\ op[t] = "Checkpoint"
    /\ Lock(t)
    /\ Forward(t, "Checkpoint")

Exec(t) ==
    /\ pc[t] = "waiting" /\ op[t] = "Exec"
    /\ Lock(t)
    /\ Forward(t, "Exec")

Kill(t) ==
    /\ pc[t] = "waiting" /\ op[t] = "Kill"
    /\ Lock(t)
    /\ Forward(t, "Kill")

SetExited(t) ==
    /\ pc[t] = "waiting" /\ op[t] = "SetExited"
    /\ Lock(t)
    /\ Forward(t, "SetExited")

Status(t) ==
    /\ pc[t] = "waiting" /\ op[t] = "Status"
    /\ Lock(t)
    /\ Forward(t, "Status")

\* The controller call in flight returns and the method runs on, on the
\* receiver it was dispatched to.
ControllerReturn(t) ==
    /\ pc[t] = "inflight"
    /\ initState_call(t, self[t], op[t])
    /\ Observe(t)
    /\ UNCHANGED <<mu, op, arg, self, want>>

\* defer p.mu.Unlock(): the operation has returned to its caller.
Unlock(t) ==
    /\ pc[t] = "done"
    /\ mu' = Free
    /\ pc' = [pc EXCEPT ![t] = "idle"]
    /\ op' = [op EXCEPT ![t] = "none"]
    /\ arg' = [arg EXCEPT ![t] = 0]
    /\ self' = [self EXCEPT ![t] = "none"]
    /\ reply' = [reply EXCEPT ![t] = Nil]
    /\ ret' = [ret EXCEPT ![t] = NoResult]
    /\ calls' = [calls EXCEPT ![t] = <<>>]
    /\ logged' = [logged EXCEPT ![t] = FALSE]
    /\ want' = [want EXCEPT ![t] = ""]
    /\ UNCHANGED <<initState, exited, status, scen>>

\* ------------------------------------------------------------------ specifications
ThreadsInit ==
    /\ mu = Free
    /\ pc = [t \in Threads |-> "idle"]
    /\ op = [t \in Threads |-> "none"]
    /\ arg = [t \in Threads |-> 0]
    /\ self = [t \in Threads |-> "none"]
    /\ reply = [t \in Threads |-> Nil]
    /\ ret = [t \in Threads |-> NoResult]
    /\ calls = [t \in Threads |-> <<>>]
    /\ logged = [t \in Threads |-> FALSE]
    /\ want = [t \in Threads |-> ""]

\* The context as its owner constructs it: in createdState, not exited.
Init ==
    /\ initState = "createdState"
    /\ exited = FALSE
    /\ status = 0
    /\ scen = Fresh
    /\ ThreadsInit

\* The context bound to any one variant, as a test of a variant's operations
\* constructs it; a stopped process has an exit status, a deleted one may.
InitVariant ==
    /\ initState \in Variants
    /\ exited \in BOOLEAN
    /\ status \in Statuses
    /\ initState \in {"createdState", "runningState", "pausedState"} => ~exited
    /\ initState = "stoppedState" => exited
    /\ ~exited => status = 0
    /\ scen = IF initState = "createdState" THEN Fresh ELSE Left
    /\ ThreadsInit

Next ==
    \E t \in Threads :
        \/ Request(t)
        \/ Start(t)
        \/ Delete(t)
        \/ Pause(t)
        \/ Resume(t)
        \/ Update(t)
        \/ Checkpoint(t)
        \/ Exec(t)
        \/ Kill(t)
        \/ SetExited(t)
        \/ Status(t)
        \/ ControllerReturn(t)
        \/ Unlock(t)

Spec == Init /\ [][Next]_vars

SpecVariant == InitVariant /\ [][Next]_vars

\* The names a transition routine is called with: the five state names and one
\* that names no state.
TransitionNames == {"created", "running", "paused", "stopped", "deleted", "exec"}

\* s.transition(n) called directly on the current state, as code of the
\* package can: the routine installs the successor or returns its error, and
\* stateName's panic unwinds through it.
Transition(t) ==
    /\ pc[t] = "idle"
    /\ mu = Free
    /\ initState # "deletedState"
    /\ \E n \in TransitionNames :
         LET r == transition(initState, initState, n)
         IN  /\ want' = [want EXCEPT ![t] = n]
             /\ initState' = r.initState
             /\ IF r.panic # Nil THEN Panic(t, r.panic) ELSE Return(t, "", r.err)
    /\ mu' = t
    /\ op' = [op EXCEPT ![t] = "transition"]
    /\ self' = [self EXCEPT ![t] = initState]
    /\ scen' = Left
    /\ UNCHANGED <<exited, status, arg, reply, calls, logged>>

NextTransition ==
    \/ Next
    \/ \E t \in Threads : Transition(t)

\* The operations from Created together with direct calls of the current
\* state's transition routine.
SpecTransition == Init /\ [][NextTransition]_vars

TypeOK ==
    /\ initState \in Variants
    /\ exited \in BOOLEAN
    /\ status \in Statuses
    /\ mu \in Threads \cup {Free}
    /\ pc \in [Threads -> {"idle", "waiting", "inflight", "done", "panicked"}]
    /\ op \in [Threads -> Ops \cup {"none", "transition"}]
    /\ arg \in [Threads -> Statuses]
    /\ self \in [Threads -> Variants \cup {"none"}]
    /\ logged \in [Threads -> BOOLEAN]
    /\ want \in [Threads -> TransitionNames \cup {""}]
    /\ scen \in [s8 : Seq(Ops \cup {"off"}), s9 : Seq(Ops \cup {"off"})]

\* ------------------------------------------------------------------ properties
\* The operation table of the design (section 4.1): the pairs that delegate to
\* the controller, and the pairs in which SetExited records the exit status.
Live == {"createdState", "runningState", "pausedState", "stoppedState"}
CallerOps == Ops \ {"SetExited", "Status"}
DelegateEntries ==
    {<<"createdState", "Start">>, <<"createdState", "Delete">>, <<"stoppedState", "Delete">>,
     <<"createdState", "Update">>, <<"runningState", "Update">>, <<"pausedState", "Update">>,
     <<"createdState", "Exec">>, <<"runningState", "Exec">>}
        \cup {<<v, "Kill">> : v \in Live}
RecordEntries == {<<v, "SetExited">> : v \in {"createdState", "runningState", "pausedState"}}

\* Thread t's operation o, dispatched to variant v, has returned.
Returned(t, v, o) == pc[t] = "done" /\ self[t] = v /\ op[t] = o
\* Thread t takes the step that dispatches its waiting operation o.
Dispatches(t, o) == pc[t] = "waiting" /\ op[t] = o /\ pc'[t] # "waiting"

\* C1 as stated: every operation whose table entry is not "delegate", and
\* SetExited where its entry is not "record exit status", leaves the state
\* unchanged and returns an error.
C1_Original ==
    \A t \in Threads :
        (/\ pc[t] = "done"
         /\ \/ op[t] \in CallerOps /\ <<self[t], op[t]>> \notin DelegateEntries
            \/ op[t] = "SetExited" /\ <<self[t], op[t]>> \notin RecordEntries)
        => initState = self[t] /\ ret[t].err # Nil

\* C1 amended: every operation among Start, Pause, Resume, Update, Checkpoint,
\* Delete, Kill, Exec whose table entry is not "delegate" leaves the state
\* unchanged, calls nothing and returns an error; SetExited in Stopped leaves the
\* state unchanged and, having no error result, returns no error.
C1_RejectedLeavesState ==
    \A t \in Threads :
        /\ (/\ pc[t] = "done"
            /\ op[t] \in CallerOps
            /\ <<self[t], op[t]>> \notin DelegateEntries)
           => initState = self[t] /\ ret[t].err # Nil /\ calls[t] = <<>>
        /\ Returned(t, "stoppedState", "SetExited")
           => initState = self[t] /\ ret[t].err = Nil

C1_Witness ==
    \E t \in Threads :
        /\ Returned(t, "runningState", "Pause")
        /\ initState = "runningState"
        /\ ret[t].err = <<"pause not implemented yet">>

\* C2: Start in Created calls the controller's start once; on success the state
\* is Running and Start returns nil; on failure Start returns the controller's
\* error and the state is still Created.
C2_StartFromCreated ==
    \A t \in Threads :
        (op[t] = "Start" /\ self[t] = "createdState") =>
            /\ pc[t] \in {"inflight", "done"}
            /\ calls[t] = <<"start">>
            /\ pc[t] = "inflight" => initState = "createdState"
            /\ pc[t] = "done" =>
                 /\ ret[t].err = reply[t]
                 /\ initState = IF reply[t] = Nil THEN "runningState" ELSE "createdState"

C2_Witness ==
    \E t \in Threads :
        /\ Returned(t, "createdState", "Start")
        /\ reply[t] = Nil
        /\ initState = "runningState"

\* C3: a Delete call changes the state to Deleted iff it was invoked in Created
\* or Stopped and the controller's delete succeeded; in Running and Paused it
\* returns an error without calling the controller; when the controller's
\* delete fails its error is returned and the state stays as it was.
C3_Delete ==
    \A t \in Threads :
        (pc[t] = "done" /\ op[t] = "Delete") =>
            /\ (initState = "deletedState" /\ self[t] # "deletedState")
                 <=> (self[t] \in {"createdState", "stoppedState"} /\ reply[t] = Nil)
            /\ self[t] \in {"runningState", "pausedState"}
                 => ret[t].err # Nil /\ calls[t] = <<>> /\ initState = self[t]
            /\ self[t] \in {"createdState", "stoppedState"}
                 => /\ calls[t] = <<"delete">>
                    /\ ret[t].err = reply[t]
                    /\ reply[t] # Nil => initState = self[t]

C3_Witness ==
    \E t \in Threads :
        /\ Returned(t, "stoppedState", "Delete")
        /\ reply[t] = Nil
        /\ initState = "deletedState"

\* C4: SetExited invoked in Created, Running or Paused never panics, records
\* the exit status it was given, and the state is Stopped when it returns,
\* whatever the controller's calls return.
C4_SetExitedAlwaysStops ==
    \A t \in Threads :
        (op[t] = "SetExited" /\ <<self[t], op[t]>> \in RecordEntries) =>
            /\ pc[t] \in {"inflight", "done"}
            /\ exited /\ status = arg[t]
            /\ pc[t] = "done" =>
                 initState = "stoppedState" /\ ret[t].err = Nil /\ ret[t].panic = Nil

C4_Witness ==
    \E t \in Threads :
        /\ Returned(t, "pausedState", "SetExited")
        /\ reply[t] # Nil
        /\ initState = "stoppedState"
        /\ exited /\ status = MaxStatus

\* C5: a SetExited call made while the state is Stopped leaves the state
\* Stopped and the recorded exit status as it was, raises no error or panic and
\* calls nothing on the controller.
C5_Step ==
    \A t \in Threads :
        (Dispatches(t, "SetExited") /\ initState = "stoppedState") =>
            /\ pc'[t] = "done"
            /\ initState' = "stoppedState"
            /\ exited' = exited /\ status' = status
            /\ calls'[t] = <<>>
            /\ ret'[t] = NoResult
            /\ logged'[t] = FALSE

\* C5: every step that runs SetExited in Stopped is such a no-op.
C5_SetExitedIdempotent == [][C5_Step]_vars

C5_Witness ==
    \E t \in Threads :
        /\ Returned(t, "stoppedState", "SetExited")
        /\ initState = "stoppedState"
        /\ exited /\ status # arg[t]

\* C6: SetExited invoked in Paused calls the controller's Resume exactly once,
\* logs a failing Resume without propagating it, and ends in Stopped.
C6_PausedSetExited ==
    \A t \in Threads :
        (op[t] = "SetExited" /\ self[t] = "pausedState") =>
            /\ pc[t] \in {"inflight", "done"}
            /\ calls[t] = <<"Resume">>
            /\ pc[t] = "inflight" => ~logged[t] /\ initState = "pausedState"
            /\ pc[t] = "done" =>
                 /\ initState = "stoppedState"
                 /\ ret[t] = NoResult
                 /\ logged[t] <=> reply[t] # Nil

C6_Witness ==
    \E t \in Threads :
        /\ Returned(t, "pausedState", "SetExited")
        /\ calls[t] = <<"Resume">>
        /\ reply[t] # Nil /\ logged[t]
        /\ ret[t] = NoResult

\* C7: Status in Created, Running, Paused, Stopped returns "created",
\* "running", "paused", "stopped" with no error, calls nothing on the
\* controller and leaves the state and the recorded exit status unchanged.
StatusString(v) ==
    CASE v = "createdState" -> "created"
      [] v = "runningState" -> "running"
      [] v = "pausedState" -> "paused"
      [] v = "stoppedState" -> "stopped"

C7_Step ==
    \A t \in Threads :
        (Dispatches(t, "Status") /\ initState \in Live) =>
            /\ pc'[t] = "done"
            /\ ret'[t] = [val |-> StatusString(initState), err |-> Nil, panic |-> Nil]
            /\ calls'[t] = <<>>
            /\ UNCHANGED <<initState, exited, status>>

\* C7: every step that runs Status in a live variant only observes.
C7_StatusObserves == [][C7_Step]_vars

C7_Witness ==
    \E t \in Threads :
        /\ Returned(t, "pausedState", "Status")
        /\ ret[t].val = "paused"
        /\ initState = "pausedState"

\* C8: once the state is Deleted it stays Deleted: every operation dispatched
\* to it calls nothing on the controller, changes nothing and, when it has an
\* error result, returns an error; every other state has a successor its
\* transition routine installs.
TransitionOf(v, cur, name) ==
    CASE v = "createdState" -> createdState_transition(cur, name)
      [] v = "runningState" -> runningState_transition(cur, name)
      [] v = "pausedState" -> pausedState_transition(cur, name)
      [] v = "stoppedState" -> stoppedState_transition(cur, name)

SuccessorNames == {"created", "running", "paused", "stopped", "deleted"}

HasSuccessor(v) ==
    \E n \in SuccessorNames :
        LET r == TransitionOf(v, v, n)
        IN  r.err = Nil /\ r.panic = Nil /\ r.initState # v

C8_State ==
    /\ initState \in Live => HasSuccessor(initState)
    /\ \A t \in Threads :
           self[t] = "deletedState" =>
               /\ pc[t] = "done"
               /\ initState = "deletedState"
               /\ calls[t] = <<>>
               /\ op[t] # "SetExited" => ret[t].err # Nil

C8_Step ==
    initState = "deletedState" => UNCHANGED <<initState, exited, status>>

AllowedEdges ==
    {<<"createdState", "runningState">>, <<"createdState", "stoppedState">>,
     <<"createdState", "deletedState">>, <<"runningState", "stoppedState">>,
     <<"runningState", "pausedState">>, <<"pausedState", "runningState">>,
     <<"pausedState", "stoppedState">>, <<"stoppedState", "deletedState">>}

C9_Step == initState' # initState => <<initState, initState'>> \in AllowedEdges

\* C9: no step installs a successor outside the table of allowed edges.
C9_AllowedEdges == [][C9_Step]_vars

C9_Witness ==
    \E t \in Threads :
        /\ Returned(t, "stoppedState", "Delete")
        /\ initState = "deletedState"
        /\ exited

Dispatched == {"inflight", "done", "panicked"}

\* C10: dispatching on the current state and installing the successor are
\* atomic: at most one operation is past its dispatch at a time, the state an
\* operation was dispatched to is still current while its controller call is in
\* flight, and a Start dispatched in Created never installs Running after
\* SetExited has installed Stopped (an exited process is Stopped or Deleted).
C10_Atomic ==
    /\ \A t, u \in Threads :
           (pc[t] \in Dispatched /\ pc[u] \in Dispatched) => t = u
    /\ \A t \in Threads : pc[t] = "inflight" => initState = self[t]
    /\ exited => initState \in {"stoppedState", "deletedState"}

C10_Witness ==
    \E t, u \in Threads :
        /\ pc[t] = "inflight" /\ op[t] = "Start" /\ self[t] = "createdState"
        /\ pc[u] = "waiting" /\ op[u] = "SetExited"
        /\ initState = "createdState"

\* C11: SetExited dispatched in Running ends in Stopped with the exit recorded,
\* whatever Kill or Update calls are pending; no step of a Kill or an Update,
\* pending or in flight, changes the current state, so one completing after
\* SetExited leaves it Stopped.
C11_State ==
    \A t \in Threads :
        (op[t] = "SetExited" /\ self[t] = "runningState") =>
            pc[t] = "done" /\ initState = "stoppedState" /\ exited

C11_Step ==
    /\ \A t \in Threads :
           (Dispatches(t, "SetExited") /\ initState = "runningState")
               => initState' = "stoppedState"
    /\ \A u \in Threads :
           (op[u] \in {"Kill", "Update"} /\ pc[u] \in {"waiting", "inflight"} /\ pc'[u] # pc[u])
               => initState' = initState

\* C11: from Running, SetExited wins over pending Kill and Update calls.
C11_SetExitedOverKillUpdate == []C11_State /\ [][C11_Step]_vars

C11_Witness ==
    \E t, u \in Threads :
        /\ Returned(t, "runningState", "SetExited")
        /\ initState = "stoppedState"
        /\ pc[u] = "waiting" /\ op[u] \in {"Kill", "Update"}

\* C12: Kill in Created, Running, Paused, Stopped, Update in Created, Running,
\* Paused and Exec in Created, Running call the controller once and never
\* transition: the state is the one the call was dispatched in, and the caller
\* receives the controller's result.
PureDelegates ==
    {<<v, "Kill">> : v \in Live}
        \cup {<<v, "Update">> : v \in {"createdState", "runningState", "pausedState"}}
        \cup {<<v, "Exec">> : v \in {"createdState", "runningState"}}

ControllerFn(o) ==
    CASE o = "Kill" -> "kill"
      [] o = "Update" -> "update"
      [] o = "Exec" -> "exec"

C12_DelegateNoTransition ==
    \A t \in Threads :
        (self[t] # "none" /\ <<self[t], op[t]>> \in PureDelegates) =>
            /\ pc[t] \in {"inflight", "done"}
            /\ initState = self[t]
            /\ calls[t] = <<ControllerFn(op[t])>>
            /\ pc[t] = "done" =>
                 /\ ret[t].err = reply[t]
                 /\ ret[t].panic = Nil
                 /\ ret[t].val = IF op[t] = "Exec" /\ reply[t] = Nil THEN "process" ELSE ""

C12_Witness ==
    \E t \in Threads :
        /\ Returned(t, "stoppedState", "Kill")
        /\ reply[t] # Nil
        /\ ret[t].err = reply[t]
        /\ initState = "stoppedState"

\* C15: within SetExited dispatched in Paused the exit status is recorded
\* first, then the compensating Resume is issued, and Stopped is installed only
\* after Resume has returned: while Resume is in flight the status is recorded
\* and the state is still Paused.
C15_PausedSetExitedOrder ==
    \A t \in Threads :
        (op[t] = "SetExited" /\ self[t] = "pausedState") =>
            /\ exited /\ status = arg[t]
            /\ Len(calls[t]) = 1 /\ calls[t][1] = "Resume"
            /\ initState = IF pc[t] = "inflight" THEN "pausedState" ELSE "stoppedState"
            /\ initState = "stoppedState" => pc[t] = "done"

C15_Witness ==
    \E t \in Threads :
        /\ pc[t] = "inflight" /\ op[t] = "SetExited" /\ self[t] = "pausedState"
        /\ initState = "pausedState"
        /\ exited /\ status = arg[t]
        /\ calls[t] = <<"Resume">>

\* C16: in an execution from Created the state is never Paused, no operation is
\* dispatched to the paused variant, the controller's Resume is never called,
\* and no step takes an edge into or out of Paused.
C16_State ==
    /\ initState # "pausedState"
    /\ \A t \in Threads :
           /\ self[t] # "pausedState"
           /\ \A i \in 1..Len(calls[t]) : calls[t][i] # "Resume"
           /\ Returned(t, "runningState", "Pause")
                => ret[t].err = <<"pause not implemented yet">> /\ initState = "runningState"

C16_Step == initState # "pausedState" /\ initState' # "pausedState"

\* C16: Paused is unreachable from Created.
C16_PausedUnreachable == []C16_State /\ [][C16_Step]_vars

C16_Witness ==
    \E t \in Threads :
        /\ Returned(t, "runningState", "Pause")
        /\ calls[t] = <<>>
        /\ initState = "runningState"
        /\ ~exited

\* C17: the exit status is recorded at most once: the SetExited that leaves
\* Created or Running records its status and no later step changes it; the
\* status is recorded exactly when the state is Stopped, or Deleted by a Delete
\* dispatched in Stopped.
C17_State ==
    /\ initState \in {"createdState", "runningState", "pausedState"} => ~exited
    /\ initState = "stoppedState" => exited
    /\ \A t \in Threads :
           (pc[t] = "done" /\ op[t] = "Delete" /\ initState = "deletedState"
               /\ self[t] # "deletedState")
               => (exited <=> self[t] = "stoppedState")

C17_Step ==
    /\ exited => exited' /\ status' = status
    /\ (~exited /\ exited') =>
           \E t \in Threads :
               /\ Dispatches(t, "SetExited")
               /\ initState \in {"createdState", "runningState"}
               /\ initState' = "stoppedState"
               /\ status' = arg[t]
    /\ initState = "deletedState" => exited' = exited

\* C17: the exit status is recorded once, and exactly in Stopped and after it.
C17_RecordedOnce == []C17_State /\ [][C17_Step]_vars

C17_Witness ==
    \E t \in Threads :
        /\ Returned(t, "stoppedState", "SetExited")
        /\ exited /\ status = MaxStatus /\ arg[t] = 0

\* C18: no operation passes a transition routine a name it rejects: no
\* operation returns an invalid-transition error and none panics.
IsInvalidTransition(e) == Len(e) > 0 /\ e[1] = "invalid state transition"

C18_NoInvalidTransition ==
    \A t \in Threads :
        /\ pc[t] # "panicked"
        /\ ret[t].panic = Nil
        /\ ~IsInvalidTransition(ret[t].err)
        /\ (pc[t] = "done" /\ op[t] \in {"Start", "Delete"}
               /\ <<self[t], op[t]>> \in DelegateEntries)
               => ret[t].err = reply[t]

C18_Witness ==
    \E t \in Threads :
        /\ Returned(t, "createdState", "Delete")
        /\ reply[t] = Nil /\ ret[t] = NoResult
        /\ initState = "deletedState"

\* The name of each variant in the design's table of allowed edges.
VariantName(v) == IF v = "deletedState" THEN "deleted" ELSE StatusString(v)

\* n names no successor the table of allowed edges gives variant v.
Undefined(v, n) == \A e \in AllowedEdges : e[1] = v => VariantName(e[2]) # n

\* C19: a direct call of a live variant's transition routine that names a
\* successor not defined for it leaves the current state unchanged and returns
\* the 'invalid state transition' error naming the current state and the
\* requested successor.
C19_InvalidTransitionReported ==
    \A t \in Threads :
        (op[t] = "transition" /\ self[t] \in Live /\ Undefined(self[t], want[t])) =>
            /\ pc[t] = "done"
            /\ initState = self[t]
            /\ ret[t].panic = Nil
            /\ ret[t].err = <<"invalid state transition", StatusString(self[t]), want[t]>>

\* The same for the variants stateName has a case for.
C19_NamedVariants ==
    \A t \in Threads :
        (op[t] = "transition" /\ self[t] \in Live \ {"pausedState"}
            /\ Undefined(self[t], want[t])) =>
            /\ pc[t] = "done"
            /\ initState = self[t]
            /\ ret[t].panic = Nil
            /\ ret[t].err = <<"invalid state transition", StatusString(self[t]), want[t]>>

\* The state after each completed operation of scenario 8 and of scenario 9.
After8 == <<"runningState", "runningState", "runningState", "stoppedState",
            "deletedState", "deletedState">>
After9 == <<"stoppedState", "deletedState">>

At(after, seen) == IF seen = <<>> THEN "createdState" ELSE after[Len(seen)]

\* Thread t's operation returns in this step.
Completes(t) == pc[t] \in {"waiting", "inflight"} /\ pc'[t] = "done"

C13_State ==
    scen.s8 # Off => initState = At(After8, scen.s8)

C13_Step ==
    (scen'.s8 # scen.s8 /\ scen'.s8 # Off) =>
        \E t \in Threads :
            /\ Completes(t)
            /\ op[t] = Script8[Len(scen'.s8)]
            /\ initState = At(After8, scen.s8)
            /\ initState' = At(After8, scen'.s8)
            /\ CASE op[t] = "Start" -> ret'[t].err = Nil /\ calls'[t] = <<"start">>
                 [] op[t] = "Pause" -> ret'[t].err = <<"pause not implemented yet">>
                 [] op[t] = "Kill" -> ret'[t].err = reply'[t] /\ calls'[t] = <<"kill">>
                 [] op[t] = "SetExited" -> ret'[t] = NoResult /\ exited' /\ status' = arg[t]
                 [] op[t] = "Delete" -> ret'[t].err = Nil /\ calls'[t] = <<"delete">>
                 [] op[t] = "Status" -> ret'[t].err # Nil

\* C13: the lifecycle Start (succeeds), Pause, Kill, SetExited, Delete
\* (succeeds), Status from Created passes through Created, Running, Running
\* (Pause returns 'pause not implemented yet'), Running (Kill delegates),
\* Stopped, Deleted, and the final Status returns an error.
C13_Lifecycle == []C13_State /\ [][C13_Step]_vars

C13_Witness ==
    \E t \in Threads :
        /\ scen.s8 = Script8
        /\ Returned(t, "deletedState", "Status")
        /\ ret[t].err # Nil
        /\ initState = "deletedState"
        /\ exited

C14_State ==
    /\ scen.s9 # Off => initState = At(After9, scen.s9)
    /\ (scen.s9 # Off /\ scen.s9 # <<>>) => exited
    /\ exited => initState # "runningState"

C14_Step ==
    /\ (scen.s9 = <<>> /\ scen'.s9 = <<"SetExited">>)
           => initState = "createdState" /\ initState' = "stoppedState"
    /\ \A t \in Threads :
           (Dispatches(t, "Start") /\ exited) =>
               /\ pc'[t] = "done"
               /\ ret'[t].err # Nil
               /\ calls'[t] = <<>>
               /\ initState' = initState

\* C14: SetExited before any Start takes the process from Created straight to
\* Stopped, a successful Delete then takes it to Deleted, and a Start call made
\* after the exit is rejected with an error and changes nothing.
C14_ExitBeforeStart == []C14_State /\ [][C14_Step]_vars

C14_Witness ==
    \E t, u \in Threads :
        /\ scen.s9 = <<"SetExited">>
        /\ Returned(t, "stoppedState", "Start")
        /\ ret[t].err = <<"cannot start a stopped process">>
        /\ initState = "stoppedState"
        /\ pc[u] = "waiting" /\ op[u] = "Delete"

====
